---- MODULE Spec2Model ----
(***************************************************************************)
(* Model of fastapi_app/main.py: the chat backend with a per-conversation  *)
(* history buffer, a best-effort audit logger with a local file fallback,  *)
(* and the HTTP handlers /api/session, /api/chat and /api/test-log.        *)
(*                                                                         *)
(* A Python string is a sequence of tokens; message and reply texts are    *)
(* sequences of single characters so that str.strip() is computed.  A JSON *)
(* value is a record [t, v] with t in {"absent", "null", "str"}.           *)
(***************************************************************************)
EXTENDS Integers, Sequences, FiniteSets, TLC

VARIABLES
    sheet,          \* module global `sheet`: "None" or "ok" (set at startup)
    client,         \* module global `client`: "None" or "ok" (set at startup)
    clock,          \* wall clock in seconds (time.time / time.strftime)
    conversations,  \* module global dict: conv_key -> list of messages
    appended,       \* history variable: conv_key -> every message ever appended
    sheetRows,      \* rows of the remote worksheet, oldest first
    backupFile,     \* writes made to sheet_log_backup.txt, oldest first
    pc,             \* per request slot: position of the handler
    loc,            \* per request slot: locals of chat()
    trace,          \* per request slot: what the current/last request did
    resp,           \* per request slot: the last HTTP response
    served          \* number of requests accepted so far

vars == <<sheet, client, clock, conversations, appended, sheetRows, backupFile,
          pc, loc, trace, resp, served>>

----------------------------------------------------------------------------
\* Bounds of the model.
MaxRequests == 2
MaxLogRequests == 2
MaxWindowTurns == 6
MaxMsgLen == 2
MaxClock == 1
MaxConcTurns == 6
MaxPidRequests == 1
MaxKeyTurns == 2
NumProcs == 2

\* Program constants.
MaxHistory == 10

Procs == 1..NumProcs

----------------------------------------------------------------------------
\* Strings and JSON values.

IsSpace(c) == c = " "

RECURSIVE LStrip(_)
LStrip(s) == IF s = <<>> THEN s
             ELSE IF IsSpace(Head(s)) THEN LStrip(Tail(s)) ELSE s

RECURSIVE RStrip(_)
RStrip(s) == IF s = <<>> THEN s
             ELSE IF IsSpace(s[Len(s)]) THEN RStrip(SubSeq(s, 1, Len(s) - 1)) ELSE s

\* Variant: the text is used as sent.
StripNothing(s) == s

\* str.strip()
Strip(s) == RStrip(LStrip(s))

Absent == [t |-> "absent", v |-> <<>>]
Null == [t |-> "null", v |-> <<>>]
Str(s) == [t |-> "str", v |-> s]

\* dict.get(key, default)
Get(payload, key, default) ==
    IF payload[key].t = "absent" THEN default ELSE payload[key]

\* Variant: every value counts as present.
TruthyAlways(j) == TRUE

\* Python truthiness of a JSON value: None and "" are falsy.
Truthy(j) == j.t = "str" /\ j.v # <<>>

\* a or b
Or(a, b) == IF Truthy(a) THEN a ELSE b

NO_PID == <<"NO_PID">>
UnknownBot == <<"UnknownBot">>
SYSTEM_PROMPT == <<"SYSTEM_PROMPT">>
Apology == <<"Sorry, I couldn't generate a response right now.">>
ArmLabel == <<"crt-intuitive">>

\* BOT_ID_MAP
BotKeys == {<<ToString(i)>> : i \in 1..8}
BOT_ID_MAP == [k \in BotKeys |-> <<"LongBot" \o k[1]>>]

\* Variant: the selector is used as the identifier.
ResolveBotRaw(sel) == sel

\* BOT_ID_MAP.get(sel, sel)
ResolveBot(sel) == IF sel \in DOMAIN BOT_ID_MAP THEN BOT_ID_MAP[sel] ELSE sel

\* f"{prolific_pid}:{bot_id}"
ConvKey(pid, bot) == pid \o <<":">> \o bot

\* time.strftime("%Y-%m-%dT%H:%M:%S")
NowIso(c) == <<"T" \o ToString(c)>>

\* f"{prolific_pid}:{bot_id}:{int(time.time())}"
SessionLabel(pid, bot, c) == pid \o <<":">> \o bot \o <<":">> \o <<ToString(c)>>

Msg(role, content) == [role |-> role, content |-> content]

\* list[-10:]
LastN(s, n) == IF Len(s) > n THEN SubSeq(s, Len(s) - n + 1, Len(s)) ELSE s

----------------------------------------------------------------------------
\* What a request did, as a sequence of events (history information).

LogEv(pid, bot, role, content, row, out) ==
    [ev |-> "log", pid |-> pid, bot |-> bot, role |-> role, content |-> content,
     row |-> row, out |-> out, msgs |-> <<>>]

ProviderEv(msgs, out) ==
    [ev |-> "provider", pid |-> <<>>, bot |-> <<>>, role |-> <<>>, content |-> <<>>,
     row |-> <<>>, out |-> out, msgs |-> msgs]

PrintEv(what) ==
    [ev |-> "print", pid |-> <<>>, bot |-> <<>>, role |-> <<>>, content |-> <<>>,
     row |-> <<>>, out |-> what, msgs |-> <<>>]

----------------------------------------------------------------------------
\* The audit logger.

\* Outcomes of one log_to_sheets call that the environment decides:
\* sheet.append_row succeeds / raises, and if it raises the backup write
\* succeeds / raises.
LogOutcomes == {"append_ok", "append_raises", "both_raise"}

\* str(x) if x else ""
StrOrEmpty(x) == IF x # <<>> THEN x ELSE <<>>

\* row = [timestamp, pid_str, bot_str, arm_str, role_str, content_str]
MakeRow(now, pid, bot, role, content) ==
    <<now, StrOrEmpty(pid), StrOrEmpty(bot), ArmLabel, role, content>>

\* Variant: the role and the content change places.
FormatLineSwapped(row) ==
    row[1] \o <<", ">> \o row[2] \o <<", ">> \o row[3] \o <<", ">> \o row[4]
           \o <<", ">> \o row[6] \o <<", ">> \o row[5] \o <<"\n">>

\* f"{timestamp}, {pid_str}, {bot_str}, {arm_str}, {role_str}, {content_str}\n"
FormatLine(row) ==
    row[1] \o <<", ">> \o row[2] \o <<", ">> \o row[3] \o <<", ">> \o row[4]
           \o <<", ">> \o row[5] \o <<", ">> \o row[6] \o <<"\n">>

\* Variant: the backup write is not guarded.
BackupFailureEscapes == TRUE

\* Whether an exception of the backup write leaves log_to_sheets.
BackupFailurePropagates == FALSE

\* Variant: without the early return, the append on a missing worksheet raises
\* and the record goes to the backup file.
LogToSheetsUnguarded(rows, backup, now, pid, bot, role, content, o) ==
    LET row == MakeRow(now, pid, bot, role, content)
        oo == IF sheet = "None" /\ o = "append_ok" THEN "append_raises" ELSE o
    IN  IF oo = "append_ok"
        THEN [rows |-> Append(rows, row), backup |-> backup, raised |-> FALSE,
              events |-> <<LogEv(pid, bot, role, content, row, "sheet"),
                           PrintEv("logged_to_sheets")>>]
        ELSE IF oo = "append_raises"
        THEN [rows |-> rows, backup |-> Append(backup, FormatLine(row)),
              raised |-> FALSE,
              events |-> <<LogEv(pid, bot, role, content, row, "backup"),
                           PrintEv("sheets_append_failed"),
                           PrintEv("backed_up_to_local_file")>>]
        ELSE [rows |-> rows, backup |-> backup, raised |-> FALSE,
              events |-> <<LogEv(pid, bot, role, content, row, "lost"),
                           PrintEv("sheets_append_failed"),
                           PrintEv("backup_logging_failed")>>]

\* log_to_sheets(prolific_pid, bot_id, role, content) run on the worksheet rows
\* `rows` and the backup file `backup` at time `now` with outcome o.
LogToSheets(rows, backup, now, pid, bot, role, content, o) ==
    IF sheet = "None"
    THEN [rows |-> rows, backup |-> backup, raised |-> FALSE,
          events |-> <<LogEv(pid, bot, role, content, <<>>, "skipped"),
                       PrintEv("skipping_sheets_log")>>]
    ELSE LET row == MakeRow(now, pid, bot, role, content) IN
         IF o = "append_ok"
         THEN [rows |-> Append(rows, row), backup |-> backup, raised |-> FALSE,
               events |-> <<LogEv(pid, bot, role, content, row, "sheet"),
                            PrintEv("logged_to_sheets")>>]
         ELSE IF o = "append_raises"
         THEN [rows |-> rows, backup |-> Append(backup, FormatLine(row)),
               raised |-> FALSE,
               events |-> <<LogEv(pid, bot, role, content, row, "backup"),
                            PrintEv("sheets_append_failed"),
                            PrintEv("backed_up_to_local_file")>>]
         ELSE [rows |-> rows, backup |-> backup,
               raised |-> BackupFailurePropagates,
               events |-> <<LogEv(pid, bot, role, content, row, "lost"),
                            PrintEv("sheets_append_failed"),
                            PrintEv("backup_logging_failed")>>]

----------------------------------------------------------------------------
\* HTTP responses.

NoResp ==
    [status |-> 0, error |-> <<>>, reply |-> <<>>, session_id |-> <<>>,
     prolific_pid |-> <<>>, bot_id |-> <<>>, st |-> <<>>]

ErrorResp(code, text) == [NoResp EXCEPT !.status = code, !.error = text]

\* An exception that leaves a handler: the framework answers 500.
ServerError == ErrorResp(500, <<"Internal Server Error">>)

ChatResp(reply, label) ==
    [NoResp EXCEPT !.status = 200, !.reply = reply, !.session_id = label]

SessionResp(sid, pid, bot) ==
    [NoResp EXCEPT !.status = 200, !.session_id = sid, !.prolific_pid = pid,
                   !.bot_id = bot]

TestLogResp(st) == [NoResp EXCEPT !.status = 200, !.st = st]

----------------------------------------------------------------------------
\* Request bodies.

NoPayload ==
    [prolific_pid |-> Absent, test_pid |-> Absent, pid |-> Absent,
     bot |-> Absent, message |-> Absent]

NoReq == [kind |-> "none", payload |-> NoPayload]

NoLoc ==
    [req |-> NoReq, prolific_pid |-> <<>>, bot_id |-> <<>>, user_msg |-> <<>>,
     conv_key |-> <<>>, reply |-> <<>>, others |-> {}]

Chars == {" ", "a"}
Texts == UNION {[1..n -> Chars] : n \in 0..MaxMsgLen}
Blank(t) == \A i \in 1..Len(t) : t[i] = " "

PidValues == {Absent, Str(<<"P1">>)}
BotValues == {Absent, Str(<<>>), Str(<<" ">>), Str(<<"3">>), Str(<<"9", "9">>)}
\* The message texts: every blank text, and the texts around one letter.
MessageValues ==
    {Absent, Null} \cup {Str(t) : t \in {u \in Texts : Blank(u)}}
    \cup {Str(<<"a">>), Str(<<" ", "a">>), Str(<<"a", " ">>)}

ObjectReq(payload) == [kind |-> "object", payload |-> payload]
InvalidReq == [kind |-> "invalid", payload |-> NoPayload]
ArrayReq == [kind |-> "array", payload |-> NoPayload]

Requests ==
    {InvalidReq, ArrayReq} \cup
    {ObjectReq([NoPayload EXCEPT !.prolific_pid = pp, !.bot = b, !.message = m]) :
        pp \in PidValues, b \in BotValues, m \in MessageValues}

\* One participant talking to one bot: the requests of a long conversation.
WindowRequests ==
    {ObjectReq([NoPayload EXCEPT !.prolific_pid = Str(<<"P1">>),
                                 !.bot = Str(<<"3">>), !.message = Str(m)]) :
        m \in {<<"a">>, <<"a", "a">>}}

\* Every way of sending the three participant fields.
PidRequests ==
    {ObjectReq([NoPayload EXCEPT !.prolific_pid = pp, !.test_pid = tp, !.pid = pd,
                                 !.bot = Str(<<"3">>), !.message = Str(<<"a">>)]) :
        pp \in {Absent, Null, Str(<<>>), Str(<<"PP">>)},
        tp \in {Absent, Null, Str(<<>>), Str(<<"TP">>)},
        pd \in {Absent, Null, Str(<<>>), Str(<<"PD">>)}}

\* Participants and bot selectors that hold a colon.
KeyRequests ==
    {ObjectReq([NoPayload EXCEPT !.prolific_pid = Str(pp), !.bot = Str(b),
                                 !.message = Str(<<"a">>)]) :
        pp \in {<<"A">>, <<"A", ":", "B">>},
        b \in {<<"B", ":", "C">>, <<"C">>}}

\* Several clients at once in one conversation.
ConcRequests ==
    {ObjectReq([NoPayload EXCEPT !.prolific_pid = Str(<<"P1">>),
                                 !.bot = Str(<<"3">>), !.message = Str(<<"a">>)])}

LogRequests ==
    {ObjectReq([NoPayload EXCEPT !.prolific_pid = Str(<<"P1">>),
                                 !.bot = Str(<<"3">>), !.message = Str(<<"a">>)])}

\* What client.chat.completions.create(...) does: it raises, or it returns a
\* completion whose content is None or a text.
RawReplies == {<<"a">>, <<"a", " ">>}
ProviderOutcomes ==
    {[kind |-> "raises", content |-> <<>>], [kind |-> "none", content |-> <<>>]}
    \cup {[kind |-> "text", content |-> r] : r \in RawReplies}

SomeProviderOutcomes ==
    {[kind |-> "raises", content |-> <<>>], [kind |-> "text", content |-> <<"a", " ">>]}

PidQueryValues == {Absent, Str(<<"P1">>)}
BotQueryValues == {Absent, Str(<<"3">>)}
SessionIds == {<<"s1">>}

----------------------------------------------------------------------------
\* The chat handler.

\* Variants of the statement order used to test the claims.
ChatOrderNoUserLog == <<"call", "log_asst", "respond">>
ChatOrderCallFirst == <<"call", "log_user", "log_asst", "respond">>

\* The statements of chat() after the history update, in program order.
ChatOrder == <<"log_user", "call", "log_asst", "respond">>

After(label) ==
    IF label = "begin" THEN ChatOrder[1]
    ELSE LET i == CHOOSE j \in 1..Len(ChatOrder) : ChatOrder[j] = label
         IN  IF i = Len(ChatOrder) THEN "idle" ELSE ChatOrder[i + 1]

\* A handler is between two awaits: nothing else runs on the event loop.
Running(p) == pc[p] \in {"log_user", "call", "log_asst", "respond"}

\* Variant: a handler starts while another one is at one of its calls.
LoopAlwaysFree == TRUE

LoopFree == \A q \in Procs : ~Running(q)

History(key) == IF key \in DOMAIN conversations THEN conversations[key] ELSE <<>>
Appended(key) == IF key \in DOMAIN appended THEN appended[key] ELSE <<>>

\* Variant: the three fields are tried in the opposite order.
PidOfReversed(payload) ==
    Or(Or(Or(Get(payload, "pid", Null), Get(payload, "test_pid", Null)),
          Get(payload, "prolific_pid", Null)),
       Str(NO_PID)).v

\* prolific_pid = payload.get("prolific_pid") or payload.get("test_pid")
\*                or payload.get("pid") or "NO_PID"
PidOf(payload) ==
    Or(Or(Or(Get(payload, "prolific_pid", Null), Get(payload, "test_pid", Null)),
          Get(payload, "pid", Null)),
       Str(NO_PID)).v

\* Variants: the cut keeps the oldest messages; there is no cut.
TrimKeepsOldest(hist) ==
    IF Len(hist) > MaxHistory THEN SubSeq(hist, 1, MaxHistory) ELSE hist
TrimNever(hist) == hist

\* if len(conversations[conv_key]) > 10: conversations[conv_key] = ...[-10:]
Trim(hist) == IF Len(hist) > MaxHistory THEN LastN(hist, MaxHistory) ELSE hist

Finish(p, r) ==
    /\ pc' = [pc EXCEPT ![p] = "idle"]
    /\ resp' = [resp EXCEPT ![p] = r]

\* A request arrives; its handler suspends at `await request.json()`.
ChatReceive(p, max) ==
    /\ pc[p] = "idle"
    /\ served < max
    /\ served' = served + 1
    /\ pc' = [pc EXCEPT ![p] = "begin"]
    /\ trace' = [trace EXCEPT ![p] = <<>>]
    /\ resp' = [resp EXCEPT ![p] = NoResp]
    /\ loc' = [loc EXCEPT ![p] = NoLoc]
    /\ UNCHANGED <<sheet, client, clock, conversations, appended, sheetRows, backupFile>>

\* Body parsing, validation, bot resolution and the history update.
ChatBegin(p, req) ==
    /\ pc[p] = "begin"
    /\ LoopFree
    /\ UNCHANGED <<sheet, client, clock, sheetRows, backupFile, served, trace>>
    /\ IF req.kind = "invalid"
       THEN /\ Finish(p, ErrorResp(400, <<"Invalid JSON body">>))
            /\ loc' = [loc EXCEPT ![p] = [NoLoc EXCEPT !.req = req]]
            /\ UNCHANGED <<conversations, appended>>
       ELSE IF req.kind = "array" \/ Get(req.payload, "message", Str(<<>>)).t = "null"
       THEN \* AttributeError: no .get on a list, no .strip on None
            /\ Finish(p, ServerError)
            /\ loc' = [loc EXCEPT ![p] = [NoLoc EXCEPT !.req = req]]
            /\ UNCHANGED <<conversations, appended>>
       ELSE LET payload == req.payload
                prolific_pid == PidOf(payload)
                bot_param == Get(payload, "bot", Str(<<>>))
                user_msg == Strip(Get(payload, "message", Str(<<>>)).v)
            IN  IF user_msg = <<>>
                THEN /\ Finish(p, ErrorResp(400, <<"Missing required field 'message'">>))
                     /\ loc' = [loc EXCEPT ![p] = [NoLoc EXCEPT !.req = req]]
                     /\ UNCHANGED <<conversations, appended>>
                ELSE IF ~Truthy(bot_param)
                THEN /\ Finish(p, ErrorResp(400, <<"Missing required field 'bot'">>))
                     /\ loc' = [loc EXCEPT ![p] = [NoLoc EXCEPT !.req = req]]
                     /\ UNCHANGED <<conversations, appended>>
                ELSE LET bot_id == ResolveBot(bot_param.v)
                         conv_key == ConvKey(prolific_pid, bot_id)
                         m == Msg("user", user_msg)
                     IN  /\ conversations' =
                               (conv_key :> Trim(Append(History(conv_key), m)))
                               @@ conversations
                         /\ appended' =
                               (conv_key :> Append(Appended(conv_key), m)) @@ appended
                         /\ loc' = [loc EXCEPT ![p] =
                               [req |-> req, prolific_pid |-> prolific_pid,
                                bot_id |-> bot_id, user_msg |-> user_msg,
                                conv_key |-> conv_key, reply |-> <<>>,
                                \* history information: the requests in
                                \* flight, suspended at the await, while
                                \* this handler runs
                                others |-> {q \in Procs \ {p} : pc[q] = "begin"}]]
                         /\ pc' = [pc EXCEPT ![p] = After("begin")]
                         /\ UNCHANGED resp

\* One log_to_sheets call of the handler in slot p, then the jump to `next`.
LogStep(p, role, content, o, next) ==
    LET r == LogToSheets(sheetRows, backupFile, NowIso(clock), loc[p].prolific_pid,
                         loc[p].bot_id, role, content, o)
    IN  /\ sheetRows' = r.rows
        /\ backupFile' = r.backup
        /\ trace' = [trace EXCEPT ![p] = @ \o r.events]
        /\ IF r.raised
           THEN Finish(p, ServerError)
           ELSE pc' = [pc EXCEPT ![p] = next] /\ UNCHANGED resp

\* log_to_sheets(prolific_pid, bot_id, "user", user_msg)
ChatLogUser(p, o) ==
    /\ pc[p] = "log_user"
    /\ LogStep(p, <<"user">>, loc[p].user_msg, o, After("log_user"))
    /\ UNCHANGED <<sheet, client, clock, conversations, appended, loc, served>>

\* Variant: the except branch stores the apology in the history.
AfterFailedCallWithApology(hist) == Append(hist, Msg("assistant", Apology))

\* The except branch assigns reply only: the history stays as it is.
AfterFailedCall(hist) == hist

\* The try block around the completion call.
ChatCall(p, po) ==
    /\ pc[p] = "call"
    /\ pc' = [pc EXCEPT ![p] = After("call")]
    /\ UNCHANGED <<sheet, client, clock, sheetRows, backupFile, resp, served>>
    /\ IF client = "None"
       THEN /\ trace' = [trace EXCEPT ![p] = Append(@, PrintEv("openai_call_failed"))]
            /\ loc' = [loc EXCEPT ![p].reply = Apology]
            /\ conversations' =
                  [conversations EXCEPT ![loc[p].conv_key] = AfterFailedCall(@)]
            /\ appended' = [appended EXCEPT ![loc[p].conv_key] = AfterFailedCall(@)]
       ELSE LET key == loc[p].conv_key
                messages == <<Msg("system", SYSTEM_PROMPT)>> \o conversations[key]
            IN  IF po.kind = "text"
                THEN LET reply == Strip(po.content)
                         m == Msg("assistant", reply)
                     IN  /\ trace' = [trace EXCEPT ![p] =
                                         Append(@, ProviderEv(messages, "returned"))]
                         /\ conversations' =
                               [conversations EXCEPT ![key] = Append(@, m)]
                         /\ appended' = [appended EXCEPT ![key] = Append(@, m)]
                         /\ loc' = [loc EXCEPT ![p].reply = reply]
                ELSE /\ trace' = [trace EXCEPT ![p] =
                                     @ \o <<ProviderEv(messages, po.kind),
                                            PrintEv("openai_call_failed")>>]
                     /\ loc' = [loc EXCEPT ![p].reply = Apology]
                     /\ conversations' =
                           [conversations EXCEPT ![key] = AfterFailedCall(@)]
                     /\ appended' = [appended EXCEPT ![key] = AfterFailedCall(@)]

\* log_to_sheets(prolific_pid, bot_id, "assistant", reply)
ChatLogAssistant(p, o) ==
    /\ pc[p] = "log_asst"
    /\ LogStep(p, <<"assistant">>, loc[p].reply, o, After("log_asst"))
    /\ UNCHANGED <<sheet, client, clock, conversations, appended, loc, served>>

\* return JSONResponse({"reply": reply, "session_id": session_like})
ChatRespond(p) ==
    /\ pc[p] = "respond"
    /\ pc' = [pc EXCEPT ![p] = After("respond")]
    /\ resp' = [resp EXCEPT ![p] =
                  ChatResp(loc[p].reply,
                           SessionLabel(loc[p].prolific_pid, loc[p].bot_id, clock))]
    /\ UNCHANGED <<sheet, client, clock, conversations, appended, sheetRows,
                   backupFile, loc, trace, served>>

----------------------------------------------------------------------------
\* The other handlers and the clock.

SessionReq(pidq, botq) ==
    [kind |-> "session", payload |-> [NoPayload EXCEPT !.pid = pidq, !.bot = botq]]

\* POST /api/session?pid=..&bot=..
NewSession(p, max, pidq, botq, sid, o) ==
    /\ pc[p] = "idle"
    /\ LoopFree
    /\ served < max
    /\ served' = served + 1
    /\ LET q == SessionReq(pidq, botq).payload
           prolific_pid == Get(q, "pid", Str(NO_PID)).v
           bot_param == Get(q, "bot", Str(<<>>))
           bot_id == IF Truthy(bot_param) THEN ResolveBot(bot_param.v) ELSE UnknownBot
           r == LogToSheets(sheetRows, backupFile, NowIso(clock), prolific_pid, bot_id,
                            <<"session">>, <<"session_created:">> \o sid, o)
       IN  /\ sheetRows' = r.rows
           /\ backupFile' = r.backup
           /\ trace' = [trace EXCEPT ![p] = r.events]
           /\ loc' = [loc EXCEPT ![p] = [NoLoc EXCEPT !.req = SessionReq(pidq, botq)]]
           /\ resp' = [resp EXCEPT ![p] =
                         IF r.raised THEN ServerError
                         ELSE SessionResp(sid, prolific_pid, bot_id)]
    /\ UNCHANGED <<sheet, client, clock, conversations, appended, pc>>

TestLogReq == [kind |-> "test-log", payload |-> NoPayload]

\* GET /api/test-log
TestLog(p, max, o1, o2) ==
    /\ pc[p] = "idle"
    /\ LoopFree
    /\ served < max
    /\ served' = served + 1
    /\ LET r1 == LogToSheets(sheetRows, backupFile, NowIso(clock), <<"DEBUG_PID">>,
                             <<"LongBot1">>, <<"user">>, <<"Test user message">>, o1)
           r2 == LogToSheets(r1.rows, r1.backup, NowIso(clock), <<"DEBUG_PID">>,
                             <<"LongBot1">>, <<"assistant">>,
                             <<"Test assistant reply">>, o2)
       IN  IF r1.raised
           THEN /\ sheetRows' = r1.rows
                /\ backupFile' = r1.backup
                /\ trace' = [trace EXCEPT ![p] = r1.events]
                /\ resp' = [resp EXCEPT ![p] = TestLogResp(<<"error">>)]
           ELSE /\ sheetRows' = r2.rows
                /\ backupFile' = r2.backup
                /\ trace' = [trace EXCEPT ![p] = r1.events \o r2.events]
                /\ resp' = [resp EXCEPT ![p] =
                              IF r2.raised THEN TestLogResp(<<"error">>)
                              ELSE TestLogResp(<<"success">>)]
    /\ loc' = [loc EXCEPT ![p] = [NoLoc EXCEPT !.req = TestLogReq]]
    /\ UNCHANGED <<sheet, client, clock, conversations, appended, pc>>

\* Time passes.
Tick ==
    /\ clock < MaxClock
    /\ clock' = clock + 1
    /\ UNCHANGED <<sheet, client, conversations, appended, sheetRows, backupFile,
                   pc, loc, trace, resp, served>>

----------------------------------------------------------------------------
\* Specifications.

\* The state after the module is imported: the two handles are set or None.
Init ==
    /\ sheet \in {"None", "ok"}
    /\ client \in {"None", "ok"}
    /\ clock = 0
    /\ conversations = <<>>
    /\ appended = <<>>
    /\ sheetRows = <<>>
    /\ backupFile = <<>>
    /\ pc = [p \in Procs |-> "idle"]
    /\ loc = [p \in Procs |-> NoLoc]
    /\ trace = [p \in Procs |-> <<>>]
    /\ resp = [p \in Procs |-> NoResp]
    /\ served = 0

ChatSteps(P, R, LO, PO, max) ==
    \/ \E p \in P : ChatReceive(p, max)
    \/ \E p \in P, req \in R : ChatBegin(p, req)
    \/ \E p \in P, o \in LO : ChatLogUser(p, o)
    \/ \E p \in P, po \in PO : ChatCall(p, po)
    \/ \E p \in P, o \in LO : ChatLogAssistant(p, o)
    \/ \E p \in P : ChatRespond(p)

\* Every kind of request body, sent by one client, one request after the other.
Next ==
    ChatSteps({1}, Requests, {"append_ok", "append_raises"}, SomeProviderOutcomes,
              MaxRequests)

Spec == Init /\ [][Next]_vars

\* One conversation, every outcome of the worksheet, of the backup file and of
\* the completion call, the two other logging handlers, and time passing.
NextLog ==
    \/ ChatSteps({1}, LogRequests, LogOutcomes, ProviderOutcomes, MaxLogRequests)
    \/ \E pidq \in PidQueryValues, botq \in BotQueryValues, sid \in SessionIds,
          o \in LogOutcomes : NewSession(1, MaxLogRequests, pidq, botq, sid, o)
    \/ \E o1 \in LogOutcomes, o2 \in LogOutcomes : TestLog(1, MaxLogRequests, o1, o2)
    \/ Tick

SpecLog == Init /\ [][NextLog]_vars

\* One client, one conversation, with the completion client configured and
\* no worksheet: the long run of turns that fills the history.
InitWindow == Init /\ sheet = "None" /\ client = "ok"

NextWindow ==
    ChatSteps({1}, WindowRequests, {"append_ok"}, SomeProviderOutcomes, MaxWindowTurns)

SpecWindow == InitWindow /\ [][NextWindow]_vars

\* Requests of several clients for one conversation, in flight at the same
\* time, with the completion client configured and no worksheet.
NextConc ==
    ChatSteps(Procs, ConcRequests, {"append_ok"}, SomeProviderOutcomes, MaxConcTurns)

SpecConc == InitWindow /\ [][NextConc]_vars

\* One client sending the participant fields in every combination.
NextPid ==
    ChatSteps({1}, PidRequests, {"append_ok"}, SomeProviderOutcomes, MaxPidRequests)

SpecPid == Init /\ [][NextPid]_vars

\* Two clients whose participant and bot identifiers hold colons.
NextKey ==
    ChatSteps(Procs, KeyRequests, {"append_ok"}, SomeProviderOutcomes, MaxKeyTurns)

SpecKey == InitWindow /\ [][NextKey]_vars

----------------
\* Vocabulary of the properties.

LogEvents(t) == SelectSeq(t, LAMBDA e : e.ev = "log")
ProviderEvents(t) == SelectSeq(t, LAMBDA e : e.ev = "provider")
Printed(t, what) == \E i \in 1..Len(t) : t[i].ev = "print" /\ t[i].out = what

IsChat(p) == loc[p].req.kind = "object"
\* The request of slot p has been answered.
Answered(p) == pc[p] = "idle" /\ resp[p].status # 0

----------------------------------------------------------------------------
\* C1: in every reachable state every stored conversation history holds at
\* most 10 messages, also after the assistant reply has been appended.
C1_HistoryAtMostTen ==
    \A k \in DOMAIN conversations : Len(conversations[k]) <= 10

\* C2: once more than 10 messages have been appended to a conversation key,
\* the retained history has length exactly 10 and is the last 10 appended
\* messages in their append order.
C2_HistoryIsLastTen ==
    \A k \in DOMAIN appended :
        Len(appended[k]) > 10 =>
            /\ Len(conversations[k]) = 10
            /\ conversations[k] = LastN(appended[k], 10)

----------------------------------------------------------------------------
\* The provider was unavailable in the turn of slot p: the client is not
\* initialised, or the completion call raised.
ProviderUnavailable(p) ==
    \/ client = "None"
    \/ \E i \in 1..Len(trace[p]) :
          trace[p][i].ev = "provider" /\ trace[p][i].out = "raises"

\* C3: a valid chat turn in which the completion provider is unavailable is
\* answered 200 with the fixed apology as reply, and the turn hands exactly
\* two records to the audit logger: the user message with role user, then the
\* apology with role assistant.
C3_ApologyAndTwoRecords ==
    \A p \in Procs :
        (IsChat(p) /\ Answered(p) /\ resp[p].status \notin {400, 500}
                   /\ ProviderUnavailable(p)) =>
            /\ resp[p].status = 200
            /\ resp[p].reply = <<"Sorry, I couldn't generate a response right now.">>
            /\ LET logs == LogEvents(trace[p])
               IN  /\ Len(logs) = 2
                   /\ logs[1].role = <<"user">>
                   /\ logs[1].content = loc[p].user_msg
                   /\ logs[2].role = <<"assistant">>
                   /\ logs[2].content =
                          <<"Sorry, I couldn't generate a response right now.">>

C3_Witness ==
    \E p \in Procs :
        /\ IsChat(p) /\ Answered(p) /\ resp[p].status = 200
        /\ client = "ok" /\ ProviderUnavailable(p)
        /\ Len(LogEvents(trace[p])) = 2

----------------------------------------------------------------------------
\* The step in which slot p reads and validates the body of its request.
Validates(p) == pc[p] = "begin" /\ pc'[p] # "begin"

\* The request is refused with a 400 and nothing else happens.
RefusedWithoutEffect(p) ==
    /\ pc'[p] = "idle"
    /\ resp'[p].status = 400
    /\ trace'[p] = <<>>
    /\ UNCHANGED <<conversations, sheetRows, backupFile>>

MessageMissingOrBlank(req) ==
    /\ req.kind = "object"
    /\ \/ req.payload.message.t = "absent"
       \/ /\ req.payload.message.t = "str"
          /\ \A i \in 1..Len(req.payload.message.v) : req.payload.message.v[i] = " "

MessageGiven(req) ==
    /\ req.kind = "object"
    /\ req.payload.message.t = "str"
    /\ \E i \in 1..Len(req.payload.message.v) : req.payload.message.v[i] # " "

\* C4: a chat request whose message is missing, empty or whitespace-only is
\* answered 400 and has no side effect: no record reaches the audit logger,
\* the provider is not called and the conversation store is unchanged,
\* whatever the bot and participant fields are.
C4_BlankMessageRefused ==
    [][\A p \in Procs :
          (Validates(p) /\ MessageMissingOrBlank(loc'[p].req))
              => RefusedWithoutEffect(p)]_vars

C4_Witness ==
    \E p \in Procs :
        /\ Answered(p) /\ resp[p].status = 400
        /\ MessageMissingOrBlank(loc[p].req)
        /\ loc[p].req.payload.message = Str(<<" ", " ">>)
        /\ Truthy(loc[p].req.payload.bot)
        /\ conversations # <<>>

----------------------------------------------------------------------------
\* The events that the step from the current state to the next one adds to
\* the trace of slot p.
NewEvents(p) ==
    IF trace'[p] = trace[p] /\ served' = served THEN <<>>
    ELSE IF pc[p] = "idle" THEN trace'[p]
    ELSE SubSeq(trace'[p], Len(trace[p]) + 1, Len(trace'[p]))

\* The six fields joined by ", " and ended by a newline.
CommaLine(f1, f2, f3, f4, f5, f6) ==
    f1 \o <<", ">> \o f2 \o <<", ">> \o f3 \o <<", ">> \o f4 \o <<", ">> \o f5
       \o <<", ">> \o f6 \o <<"\n">>

\* The line of the fallback file for a logger call e made at time c: the
\* values of the row offered to the worksheet, which are the timestamp, the
\* participant, the bot, the arm label, the role and the content of the call.
LineOf(e, c) ==
    IF e.row = <<NowIso(c), e.pid, e.bot, <<"crt-intuitive">>, e.role, e.content>>
    THEN CommaLine(e.row[1], e.row[2], e.row[3], e.row[4], e.row[5], e.row[6])
    ELSE <<"no such row">>

LinesOf(events, c) == [i \in 1..Len(events) |-> LineOf(events[i], c)]

\* C6 as stated: whenever the worksheet append of a logger call raises, the
\* record is appended to the fallback file as one line with the six fields of
\* the offered row, in the same order and with the same values.
C6_RaisedAppendIsBackedUp ==
    [][\A p \in Procs :
          NewEvents(p) # <<>> =>
              backupFile' = backupFile \o
                  LinesOf(SelectSeq(NewEvents(p),
                                    LAMBDA e : e.ev = "log" /\ e.out \in {"backup", "lost"}),
                          clock)]_vars

\* C6 amended: whenever the worksheet append of a logger call raises and the
\* write to the fallback file does not raise as well, the record is appended
\* to the fallback file as one line with the six fields of the offered row, in
\* the same order and with the same values; when the write raises too, the
\* record is written nowhere.
C6_RaisedAppendIsBackedUpIfWritable ==
    [][\A p \in Procs :
          NewEvents(p) # <<>> =>
              backupFile' = backupFile \o
                  LinesOf(SelectSeq(NewEvents(p),
                                    LAMBDA e : e.ev = "log" /\ e.out = "backup"),
                          clock)]_vars

C6_Witness ==
    \E p \in Procs : \E i \in 1..Len(trace[p]) :
        /\ trace[p][i].ev = "log" /\ trace[p][i].out = "backup"
        /\ trace[p][i].role = <<"assistant">>
        /\ Len(backupFile) >= 2
        /\ \E c \in 0..MaxClock : backupFile[Len(backupFile)] = LineOf(trace[p][i], c)

----------------------------------------------------------------------------
\* C7: the audit logger never raises to its caller, whatever the worksheet
\* and the fallback file do, so a logging failure changes neither the status
\* nor the reply: /api/session answers 200 with the session, /api/test-log
\* answers success, and an accepted chat turn answers 200 with the reply of
\* the turn.
C7_LoggingNeverSurfaces ==
    \A p \in Procs :
        /\ Answered(p) /\ loc[p].req.kind = "session" =>
              /\ resp[p].status = 200
              /\ resp[p].session_id \in SessionIds
        /\ Answered(p) /\ loc[p].req.kind = "test-log" =>
              /\ resp[p].status = 200
              /\ resp[p].st = <<"success">>
              /\ Len(LogEvents(trace[p])) = 2
        /\ Answered(p) /\ IsChat(p) /\ loc[p].conv_key # <<>> =>
              /\ resp[p].status = 200
              /\ resp[p].reply = loc[p].reply
              /\ Len(LogEvents(trace[p])) = 2
        /\ Running(p) => resp[p].status = 0

C7_Witness ==
    \E p \in Procs :
        /\ Answered(p) /\ IsChat(p) /\ resp[p].status = 200
        /\ \A i \in 1..Len(LogEvents(trace[p])) : LogEvents(trace[p])[i].out = "lost"
        /\ Len(LogEvents(trace[p])) = 2

----------------------------------------------------------------------------
IsLog(e, role) == e.ev = "log" /\ e.role = role

\* C8: within one accepted chat turn the user record is emitted before the
\* provider call is made, the provider call has returned or failed before the
\* assistant record is emitted, and the assistant record never precedes the
\* user record.
C8_TurnOrder ==
    \A p \in Procs :
        IsChat(p) =>
            LET t == trace[p] IN
            /\ \A i \in 1..Len(t) :
                  t[i].ev = "provider" =>
                      /\ \E j \in 1..(i - 1) : IsLog(t[j], <<"user">>)
                      /\ \A j \in 1..(i - 1) : ~IsLog(t[j], <<"assistant">>)
                      /\ t[i].out \in {"returned", "raises", "none"}
            /\ \A i \in 1..Len(t) :
                  IsLog(t[i], <<"assistant">>) =>
                      /\ \E j \in 1..(i - 1) : IsLog(t[j], <<"user">>)
                      /\ \A j \in (i + 1)..Len(t) : t[j].ev # "provider"
            /\ (pc[p] = "call" \/ pc[p] = "log_asst") =>
                  \E j \in 1..Len(t) : IsLog(t[j], <<"user">>)
            /\ (Answered(p) /\ resp[p].status = 200 /\ client = "ok") =>
                  \E i, j, k \in 1..Len(t) :
                      /\ i < j /\ j < k
                      /\ IsLog(t[i], <<"user">>)
                      /\ t[j].ev = "provider"
                      /\ IsLog(t[k], <<"assistant">>)

C8_Witness ==
    \E p \in Procs :
        /\ IsChat(p) /\ pc[p] = "respond"
        /\ Len(ProviderEvents(trace[p])) = 1
        /\ Len(LogEvents(trace[p])) = 2

----------------------------------------------------------------------------
\* The fixed bot table, written out.
TableBot(sel) ==
    CASE sel = <<"1">> -> <<"LongBot1">>
      [] sel = <<"2">> -> <<"LongBot2">>
      [] sel = <<"3">> -> <<"LongBot3">>
      [] sel = <<"4">> -> <<"LongBot4">>
      [] sel = <<"5">> -> <<"LongBot5">>
      [] sel = <<"6">> -> <<"LongBot6">>
      [] sel = <<"7">> -> <<"LongBot7">>
      [] sel = <<"8">> -> <<"LongBot8">>
      [] OTHER -> sel

\* The chat request of slot p passed validation.
Accepted(p) == IsChat(p) /\ (Running(p) \/ (Answered(p) /\ resp[p].status = 200))

Selector(p) == loc[p].req.payload.bot.v

\* C9: the bot selector of a chat turn is resolved through the fixed table
\* ("1".."8" give "LongBot1".."LongBot8", any other non-empty selector gives
\* itself), and the resolved identifier is the bot field of both log records
\* of the turn, the bot part of the conversation key and the bot part of the
\* returned session label.
C9_ResolvedBotEverywhere ==
    /\ \A sel \in BotKeys \cup {<<"9", "9">>, <<"0">>, <<" ">>, <<"LongBot3">>} :
          ResolveBot(sel) = TableBot(sel)
    /\ \A p \in Procs :
          Accepted(p) =>
              LET bot == TableBot(Selector(p))
                  pid == loc[p].prolific_pid
                  logs == LogEvents(trace[p])
              IN  /\ \A i \in 1..Len(logs) :
                        /\ logs[i].bot = bot
                        /\ logs[i].row # <<>> => logs[i].row[3] = bot
                  /\ Answered(p) => Len(logs) = 2
                  /\ loc[p].conv_key = pid \o <<":">> \o bot
                  /\ loc[p].conv_key \in DOMAIN conversations
                  /\ Answered(p) =>
                        \E c \in 0..MaxClock :
                            resp[p].session_id =
                                pid \o <<":">> \o bot \o <<":", ToString(c)>>

C9_Witness ==
    \E p \in Procs :
        /\ Accepted(p) /\ Answered(p)
        /\ Selector(p) = <<"3">>
        /\ resp[p].session_id = <<"P1", ":", "LongBot3", ":", "0">>
        /\ <<"NO_PID", ":", "9", "9">> \in DOMAIN conversations

\* C10: a chat turn whose bot selector is absent from the bot table records a
\* warning, and a turn whose selector is in the table records none.
C10_UnknownBotWarned ==
    \A p \in Procs :
        (Accepted(p) /\ Answered(p)) =>
            (Printed(trace[p], "unknown_bot_warning") <=> Selector(p) \notin BotKeys)

----------------------------------------------------------------------------
\* No message appended to key k is missing from its stored history, except
\* the oldest ones that the cut to 10 removed.
NothingLost(k) ==
    LET h == conversations[k]
        a == appended[k]
    IN  /\ h = LastN(a, Len(h))
        /\ Len(h) >= (IF Len(a) <= 10 THEN Len(a) ELSE 10)

\* Slots p and q hold two answered turns for one key, and q's request was in
\* flight while the handler of p ran.
Overlapped(p, q) ==
    /\ p # q
    /\ IsChat(p) /\ Answered(p) /\ resp[p].status = 200
    /\ IsChat(q) /\ Answered(q) /\ resp[q].status = 200
    /\ q \in loc[p].others
    /\ loc[p].conv_key = loc[q].conv_key

\* C11 as stated: chat turns for one key that are in flight at the same time
\* interleave and lose an update: once both are answered, a message that one
\* of them appended is missing from the stored history although the cut to
\* 10 did not remove it.
C11_OverlapLosesUpdate ==
    \A p \in Procs : \A q \in Procs :
        Overlapped(p, q) => ~NothingLost(loc[p].conv_key)

\* C11 amended: chat turns for one key are not protected by any lock, but a
\* turn has no suspension point after its body is read (the provider call, the
\* worksheet append and the fallback write block), so the turns run one after
\* the other and no update is lost: the stored history is always the most
\* recent appended messages in append order, and only the cut to 10 removes
\* a message.
C11_NoUpdateLost ==
    /\ \A p \in Procs : \A q \in Procs : (Running(p) /\ Running(q)) => p = q
    /\ \A k \in DOMAIN conversations : NothingLost(k)
    /\ DOMAIN conversations = DOMAIN appended

C11_Witness ==
    \E p \in Procs : \E q \in Procs :
        /\ Overlapped(p, q)
        /\ Len(appended[loc[p].conv_key]) > 10
        /\ Len(conversations[loc[p].conv_key]) = 10

----------------------------------------------------------------------------
\* The first of the three participant fields that the body holds, whatever
\* its value, and "NO_PID" when it holds none of them.
FirstPresent(payload) ==
    IF payload.prolific_pid.t # "absent" THEN payload.prolific_pid.v
    ELSE IF payload.test_pid.t # "absent" THEN payload.test_pid.v
    ELSE IF payload.pid.t # "absent" THEN payload.pid.v
    ELSE <<"NO_PID">>

NonEmpty(j) == j.t = "str" /\ Len(j.v) > 0

\* The first of the three participant fields that holds a non-empty string.
FirstNonEmpty(payload) ==
    IF NonEmpty(payload.prolific_pid) THEN payload.prolific_pid.v
    ELSE IF NonEmpty(payload.test_pid) THEN payload.test_pid.v
    ELSE IF NonEmpty(payload.pid) THEN payload.pid.v
    ELSE <<"NO_PID">>

\* The participant of the turn of slot p, as the handler and both log records
\* have it.
ParticipantIs(p, pid) ==
    /\ loc[p].prolific_pid = pid
    /\ \A i \in 1..Len(trace[p]) : trace[p][i].ev = "log" => trace[p][i].pid = pid

\* C12 as stated: the participant identifier of a chat turn is the value of
\* the first participant field present in the body, in the order prolific_pid,
\* test_pid, pid, and is "NO_PID" only when none of the three is present.
C12_FirstPresentPidWins ==
    \A p \in Procs :
        Accepted(p) => ParticipantIs(p, FirstPresent(loc[p].req.payload))

\* C12 amended: the participant identifier of a chat turn is the value of the
\* first participant field that holds a non-empty value (an absent, null or
\* empty field is skipped), in the order prolific_pid, test_pid, pid, and is
\* "NO_PID" only when none of the three holds a non-empty value.
C12_FirstNonEmptyPidWins ==
    \A p \in Procs :
        Accepted(p) => ParticipantIs(p, FirstNonEmpty(loc[p].req.payload))

C12_Witness ==
    \E p \in Procs :
        /\ Accepted(p) /\ Answered(p)
        /\ loc[p].req.payload.prolific_pid = Str(<<>>)
        /\ loc[p].req.payload.test_pid = Str(<<"TP">>)
        /\ loc[p].req.payload.pid = Str(<<"PD">>)
        /\ ParticipantIs(p, <<"TP">>)
        /\ Len(LogEvents(trace[p])) = 2

----------------------------------------------------------------------------
\* The (participant, resolved bot) pair of the turn of slot p.
PairOf(p) == <<loc[p].prolific_pid, loc[p].bot_id>>

\* C13: conversation histories are identified by the pair (participant
\* identifier, resolved bot identifier) and are never shared between two
\* different pairs, also when an identifier holds a colon: two turns of
\* different pairs use different conversation keys.
C13_PairsNeverShareHistory ==
    \A p \in Procs : \A q \in Procs :
        (Accepted(p) /\ Accepted(q) /\ PairOf(p) # PairOf(q))
            => loc[p].conv_key # loc[q].conv_key

----------------------------------------------------------------------------
\* The provider returned a completion with a text in the turn of slot p.
ProviderReturned(p) ==
    \E i \in 1..Len(trace[p]) :
        trace[p][i].ev = "provider" /\ trace[p][i].out = "returned"

\* The turn of slot p has left its try block.
PastCall(p) ==
    \/ pc[p] \in {"log_asst", "respond"}
    \/ Answered(p) /\ resp[p].status = 200

\* C14: when the provider call of a turn fails, only the user message of the
\* turn is appended to the history (the apology is returned and logged, never
\* appended); when it succeeds, the assistant reply is appended right after
\* that user message.
C14_ReplyAppendedOnlyOnSuccess ==
    \A p \in Procs :
        (IsChat(p) /\ PastCall(p) /\ (\A q \in Procs : Running(q) => q = p)) =>
            LET h == conversations[loc[p].conv_key]
                a == appended[loc[p].conv_key]
                n == Len(h)
                logs == LogEvents(trace[p])
                user == [role |-> "user", content |-> loc[p].user_msg]
            IN  IF ProviderReturned(p)
                THEN /\ n >= 2
                     /\ h[n] = [role |-> "assistant", content |-> loc[p].reply]
                     /\ h[n - 1] = user
                     /\ a[Len(a)] = h[n] /\ a[Len(a) - 1] = user
                ELSE /\ n >= 1
                     /\ h[n] = user
                     /\ a[Len(a)] = user
                     /\ loc[p].reply =
                            <<"Sorry, I couldn't generate a response right now.">>
                     /\ Answered(p) =>
                            /\ resp[p].reply = loc[p].reply
                            /\ logs[Len(logs)].role = <<"assistant">>
                            /\ logs[Len(logs)].content = loc[p].reply

C14_Witness ==
    \E p \in Procs :
        /\ IsChat(p) /\ Answered(p) /\ resp[p].status = 200
        /\ client = "ok" /\ ~ProviderReturned(p)
        /\ Len(ProviderEvents(trace[p])) = 1
        /\ Len(appended[loc[p].conv_key]) = 3
        /\ appended[loc[p].conv_key][2].role = "assistant"

----------------------------------------------------------------------------
\* The messages after the first one of a provider request.
Rest(msgs) == SubSeq(msgs, 2, Len(msgs))

\* C15: every request sent to the completion provider is one system message
\* first, followed by the whole stored history of the conversation as it is at
\* the time of the call: between 1 and 10 messages, none of them a system
\* message, the last one the user message of the current turn.
C15_ProviderRequestShape ==
    \A p \in Procs :
        IsChat(p) =>
            \A i \in 1..Len(trace[p]) :
                trace[p][i].ev = "provider" =>
                    LET msgs == trace[p][i].msgs
                        rest == Rest(msgs)
                        h == conversations[loc[p].conv_key]
                    IN  /\ Len(msgs) >= 2
                        /\ msgs[1].role = "system"
                        /\ msgs[1].content = SYSTEM_PROMPT
                        /\ Len(rest) >= 1 /\ Len(rest) <= 10
                        /\ \A j \in 1..Len(rest) : rest[j].role \in {"user", "assistant"}
                        /\ rest[Len(rest)] = [role |-> "user", content |-> loc[p].user_msg]
                        /\ (PastCall(p) /\ \A q \in Procs : Running(q) => q = p) =>
                               IF trace[p][i].out = "returned"
                               THEN h = Append(rest, [role |-> "assistant",
                                                      content |-> loc[p].reply])
                               ELSE h = rest

C15_Witness ==
    \E p \in Procs :
        /\ IsChat(p) /\ Answered(p) /\ resp[p].status = 200
        /\ Len(ProviderEvents(trace[p])) = 1
        /\ LET rest == Rest(ProviderEvents(trace[p])[1].msgs)
           IN  /\ Len(rest) = 10
               /\ rest[1].role = "assistant"
               /\ Len(appended[loc[p].conv_key]) > 10

----------------------------------------------------------------------------
\* The logger call recorded as e did nothing: no row was built, none stored.
SilentNoOp(e) == e.out = "skipped" /\ e.row = <<>>

\* The body of the answer of slot p is made of its request alone.
BodyFromRequest(p) ==
    IF loc[p].req.kind = "session"
    THEN LET q == loc[p].req.payload IN
         /\ resp[p].status = 200
         /\ resp[p].session_id \in SessionIds
         /\ resp[p].prolific_pid = (IF q.pid.t = "absent" THEN <<"NO_PID">> ELSE q.pid.v)
         /\ resp[p].bot_id = (IF q.bot.t = "absent" THEN <<"UnknownBot">>
                              ELSE TableBot(q.bot.v))
    ELSE /\ resp[p].status = 200
         /\ resp[p].reply = loc[p].reply
         /\ \E t \in 0..clock :
                resp[p].session_id = SessionLabel(loc[p].prolific_pid, loc[p].bot_id, t)

\* C16: while no worksheet is configured every call of the audit logger is a
\* silent no-op (no row is appended, no line is written to the fallback file),
\* and /api/session and valid /api/chat requests are still answered 200 with
\* the body they have when a worksheet is configured.
C16_NoSheetNoRecord ==
    /\ \A p \in Procs :
          (Answered(p) /\ resp[p].status = 200
                       /\ loc[p].req.kind \in {"session", "object"})
              => BodyFromRequest(p)
    /\ sheet = "None" =>
        /\ sheetRows = <<>>
        /\ backupFile = <<>>
        /\ \A p \in Procs :
              /\ \A i \in 1..Len(trace[p]) :
                    trace[p][i].ev = "log" => SilentNoOp(trace[p][i])
              /\ ~Printed(trace[p], "sheets_append_failed")
              /\ (Answered(p) /\ loc[p].req.kind = "session") =>
                     /\ Len(LogEvents(trace[p])) = 1
                     /\ BodyFromRequest(p)
              /\ (Answered(p) /\ IsChat(p) /\ resp[p].status # 400) =>
                     /\ Len(LogEvents(trace[p])) = 2
                     /\ BodyFromRequest(p)

C16_Witness ==
    \E p \in Procs :
        /\ sheet = "None"
        /\ IsChat(p) /\ Answered(p) /\ resp[p].status = 200
        /\ Len(LogEvents(trace[p])) = 2
        /\ served = 2

----------------------------------------------------------------------------
\* C17: in every reachable state, requests in flight at the same time for one
\* conversation key included, every assistant message of a stored history that
\* is not in first position is immediately preceded by a user message: two
\* assistant messages are never adjacent.
C17_AssistantFollowsUser ==
    \A k \in DOMAIN conversations :
        LET h == conversations[k] IN
        \A i \in 2..Len(h) : h[i].role = "assistant" => h[i - 1].role = "user"

C17_Witness ==
    \E p \in Procs : \E q \in Procs :
        /\ Overlapped(p, q)
        /\ ProviderReturned(p) /\ ProviderReturned(q)
        /\ LET h == conversations[loc[p].conv_key]
           IN  /\ Len(h) = 11
               /\ h[1].role = "assistant"
               /\ h[Len(h)].role = "assistant"

====
